---- MODULE Spec2Model ----
(***************************************************************************)
(* Model of the sample game data module src/gamedata.py and of the         *)
(* StatGraph contract (spec.md, sections 3, 4.1, 6, 7) that its Stat,      *)
(* Skill and Entity constructions rely on.                                 *)
(*                                                                         *)
(* gamedata.py is a list of module-level statements.  Python compiles the   *)
(* whole file before it runs the first statement; a file that compiles is  *)
(* executed one statement per step, in file order (pc is the line of the   *)
(* next statement), and an exception raised by a statement stops the body. *)
(* The constructors Stat, Skill, Entity, Item, Portal and Area come from   *)
(* the rpgprotocol library, which is not part of src/: their behaviour is  *)
(* taken from spec.md (Stat(...) is create_base_stat/create_derived_stat   *)
(* on the session's StatGraph, x.full_value() is full_value(x.name)).      *)
(*                                                                         *)
(* Python values whose dynamic type decides the result of an operator are  *)
(* tagged records [t |-> "int"|"str", v |-> ...]; a dict is a function     *)
(* whose domain is its key set; a list is a sequence, and the Python index *)
(* i is position i+1.                                                      *)
(*                                                                         *)
(* The module as written does not load: line 110 is not valid syntax, so   *)
(* compilation raises SyntaxError and no statement runs; no Stat, Skill,   *)
(* Entity, Item or Area is built.  The statements are modelled as written  *)
(* (Line45 .. Line119): they say what the file declares, and Exec would    *)
(* run them if the file compiled.  The engine's calls (spec.md 6) are made *)
(* on the empty session that the failed load leaves behind.                *)
(***************************************************************************)
EXTENDS Integers, Sequences, FiniteSets, TLC

VARIABLES
    imported,    \* the names that "from rpgprotocol import *" (line 5) binds
    compiled,    \* TRUE once src/gamedata.py has been compiled without error
    pc,          \* line of src/gamedata.py to execute next
    exc,         \* exception that stopped the module body ("none" while running)
    i,           \* the loop variable of lines 103 and 107 (a tagged Python value)
    iter,        \* position of the running for loop in its range
    graph,       \* StatGraph: stat name -> Stat
    skills,      \* skill name -> Skill
    dicts,       \* the module's dict variables: melee_values, playerexp, roommateexp, stats
    entities,    \* Entity objects, by the variable (or dict key) that holds them
    groups,      \* kitchenspiders, basementrats: variable -> set of keys
    items,       \* Item objects, by variable
    areas,       \* Area objects, by variable
    lastCall,    \* the last StatGraph / skill operation called and its outcome
    ncalls,      \* number of engine calls made so far
    issued,      \* issued[k] = stat that modifier id k was applied to
    removed,     \* modifier ids for which remove_modifier was called on their stat
    lastLevel    \* result of the last current-level computation

vars == <<imported, compiled, pc, exc, i, iter, graph, skills, dicts, entities, groups, items, areas,
          lastCall, ncalls, issued, removed, lastLevel>>

(***************************************************************************)
(* Named values of src/gamedata.py, lines 20-28.                           *)
(***************************************************************************)
\* faulty variant: a mistyped threshold
EXPERIENCE_CURVE_mistyped == <<0, 500, 1500, 3500, 5000, 6500, 9500, 13000, 17000, 20500>>
\* faulty variant: one perk-point entry missing
PERK_POINTS_short == <<5, 3, 5, 3, 3, 5, 3, 3, 5>>
EXPERIENCE_CURVE == <<0, 500, 1500, 3000, 5000, 6500, 9500, 13000, 17000, 20500>>
PERK_POINTS == <<5, 3, 5, 3, 3, 5, 3, 3, 5, 15>>
PERK_CREDITS == <<3, 1, 2, 3, 4, 5, 5, 5, 7, 9>>
BASE_STAT_MINIMUM == 5
PC_STATMOD == 0
NPC_BOSS_STATMOD == 0
NPC_MILITARY_STATMOD == -1
NPC_MILITIA_STATMOD == -2
NPC_CIVILIAN_STATMOD == -3

(***************************************************************************)
(* Bounds of the model: the number of engine calls, and the number of      *)
(* modifiers the engine applies.                                           *)
(***************************************************************************)
MaxCalls == 6
MaxMods == 3

(***************************************************************************)
(* Python helpers.                                                         *)
(***************************************************************************)
PyInt(n) == [t |-> "int", v |-> n]
PyStr(s) == [t |-> "str", v |-> s]

\* range(a, b) as the list a, a+1, ..., b-1
PyRange(a, b) == [k \in 1..(IF b > a THEN b - a ELSE 0) |-> a + k - 1]

\* a + b on the strings the module could concatenate (TLA+ has no string
\* concatenation)
StrConcat(a, b) ==
    CASE a = "spider " -> (CASE b = "1" -> "spider 1" [] b = "2" -> "spider 2"
                             [] b = "3" -> "spider 3" [] OTHER -> "spider 4")
      [] a = "rat " -> (CASE b = "1" -> "rat 1" [] OTHER -> "rat 2")
      [] OTHER -> a

\* a + b: str + str concatenates, int + int adds, anything else raises TypeError
PyAdd(a, b) ==
    IF a.t = "str" /\ b.t = "str" THEN [exc |-> "none", val |-> PyStr(StrConcat(a.v, b.v))]
    ELSE IF a.t = "int" /\ b.t = "int" THEN [exc |-> "none", val |-> PyInt(a.v + b.v)]
    ELSE [exc |-> "TypeError", val |-> a]

(***************************************************************************)
(* StatGraph (spec.md 3 and 4.1).                                          *)
(***************************************************************************)
NoSource == "None"

ModifierFns == {"identity", "times10"}

ApplyFn(fn, v) == IF fn = "times10" THEN v * 10 ELSE v

NewStat(value, source, fn) ==
    [value |-> value, source |-> source, modifier_fn |-> fn, modifiers |-> <<>>]

\* one modifier applied to a value: additive or multiplicative
ApplyModifier(m, v) == IF m.kind = "add" THEN v + m.amount ELSE v * m.amount

\* the modifiers of a stat applied in list order, each to the result of the
\* previous one
RECURSIVE ApplyModifiers(_, _)
ApplyModifiers(mods, v) ==
    IF mods = <<>> THEN v
    ELSE ApplyModifiers(Tail(mods), ApplyModifier(Head(mods), v))

\* The recursive read.  fuel counts the recursion depth that is left: the
\* recursion bottoms out within |stats| calls exactly when the chain reaches a
\* base stat; done = FALSE stands for a recursion that does not end.
RECURSIVE Resolve(_, _, _)
Resolve(g, name, fuel) ==
    IF name \notin DOMAIN g THEN [done |-> FALSE, value |-> 0]
    ELSE IF g[name].source = NoSource
    THEN [done |-> TRUE, value |-> ApplyModifiers(g[name].modifiers, g[name].value)]
    ELSE IF fuel = 0 THEN [done |-> FALSE, value |-> 0]
    ELSE LET r == Resolve(g, g[name].source, fuel - 1)
         IN  [done |-> r.done,
              value |-> ApplyModifiers(g[name].modifiers,
                                       ApplyFn(g[name].modifier_fn, r.value))]

full_value(g, name) == Resolve(g, name, Cardinality(DOMAIN g)).value

\* walk of the source chain from cur: TRUE when name is reached
RECURSIVE ChainReaches(_, _, _, _)
ChainReaches(g, cur, name, fuel) ==
    IF cur = name THEN TRUE
    ELSE IF cur \notin DOMAIN g \/ fuel = 0 THEN FALSE
    ELSE IF g[cur].source = NoSource THEN FALSE
    ELSE ChainReaches(g, g[cur].source, name, fuel - 1)

\* faulty variant: the duplicate check comes after the write
create_base_stat_overwrites(g, name, value) ==
    IF name \in DOMAIN g
    THEN [graph |-> [g EXCEPT ![name].value = value], result |-> "DuplicateNameError"]
    ELSE [graph |-> g @@ (name :> NewStat(value, NoSource, "identity")),
          result |-> "ok"]

create_base_stat(g, name, value) ==
    IF name \in DOMAIN g
    THEN [graph |-> g, result |-> "DuplicateNameError"]
    ELSE [graph |-> g @@ (name :> NewStat(value, NoSource, "identity")),
          result |-> "ok"]

\* faulty variant: the duplicate check comes before the cycle walk, so a cycle
\* is never reported
create_derived_stat_duplicate_first(g, name, source_name, fn) ==
    IF name \in DOMAIN g
    THEN [graph |-> g, result |-> "DuplicateNameError"]
    ELSE IF source_name \notin DOMAIN g
    THEN [graph |-> g, result |-> "UnknownStatError"]
    ELSE IF ChainReaches(g, source_name, name, Cardinality(DOMAIN g))
    THEN [graph |-> g, result |-> "CycleError"]
    ELSE [graph |-> g @@ (name :> NewStat(0, source_name, fn)), result |-> "ok"]

\* spec.md 4.1 gives the walk from source_name back to name, and spec.md 8
\* requires CycleError for create_derived_stat(B, A) after (A, B), a call whose
\* name is registered: the walk comes first.  Any other registered name is a
\* duplicate registration (spec.md 7, 8); then the source must be registered.
create_derived_stat(g, name, source_name, fn) ==
    IF source_name \in DOMAIN g /\ ChainReaches(g, source_name, name, Cardinality(DOMAIN g))
    THEN [graph |-> g, result |-> "CycleError"]
    ELSE IF name \in DOMAIN g
    THEN [graph |-> g, result |-> "DuplicateNameError"]
    ELSE IF source_name \notin DOMAIN g
    THEN [graph |-> g, result |-> "UnknownStatError"]
    ELSE [graph |-> g @@ (name :> NewStat(0, source_name, fn)), result |-> "ok"]

set_base_value(g, name, value) ==
    IF name \notin DOMAIN g
    THEN [graph |-> g, result |-> "UnknownStatError"]
    ELSE [graph |-> [g EXCEPT ![name].value = value], result |-> "ok"]

\* faulty variant: the new modifier is put in front
apply_modifier_prepends(g, name, modifier) ==
    IF name \notin DOMAIN g
    THEN [graph |-> g, result |-> "UnknownStatError"]
    ELSE [graph |-> [g EXCEPT ![name].modifiers = <<modifier>> \o @],
          result |-> "ok"]

apply_modifier(g, name, modifier) ==
    IF name \notin DOMAIN g
    THEN [graph |-> g, result |-> "UnknownStatError"]
    ELSE [graph |-> [g EXCEPT ![name].modifiers = Append(@, modifier)],
          result |-> "ok"]

\* the sequence without the entries whose id is modifier_id, order kept
RECURSIVE WithoutId(_, _)
WithoutId(mods, modifier_id) ==
    IF mods = <<>> THEN <<>>
    ELSE IF Head(mods).id = modifier_id THEN WithoutId(Tail(mods), modifier_id)
    ELSE <<Head(mods)>> \o WithoutId(Tail(mods), modifier_id)

remove_modifier(g, name, modifier_id) ==
    IF name \notin DOMAIN g
    THEN [graph |-> g, result |-> "UnknownStatError"]
    ELSE [graph |-> [g EXCEPT ![name].modifiers = WithoutId(@, modifier_id)],
          result |-> "ok"]

(***************************************************************************)
(* Skill leveling tables (spec.md 3 and 7) and the current level           *)
(* (spec.md 8).                                                            *)
(***************************************************************************)
\* thresholds[k] > thresholds[k-1] for every Python index k from `from` on
RECURSIVE IncreasingFrom(_, _)
IncreasingFrom(curve, from) ==
    IF from + 1 > Len(curve) THEN TRUE
    ELSE IF curve[from + 1] <= curve[from] THEN FALSE
    ELSE IncreasingFrom(curve, from + 1)

\* the constructor's check of a leveling table
LevelTableOk(experience_curve, perk_points, perk_credits) ==
    /\ Len(experience_curve) = Len(perk_points)
    /\ Len(experience_curve) = Len(perk_credits)
    /\ Len(experience_curve) > 0
    /\ experience_curve[1] = 0
    /\ IncreasingFrom(experience_curve, 1)

NewSkill(experience_curve, perk_points, perk_credits, involved_stats, stat_values) ==
    [experience_curve |-> experience_curve, perk_points |-> perk_points,
     perk_credits |-> perk_credits, involved_stats |-> involved_stats,
     stat_values |-> stat_values]

Skill(sk, experience_curve, perk_points, perk_credits, name, involved_stats, stat_values) ==
    IF ~LevelTableOk(experience_curve, perk_points, perk_credits)
    THEN [skills |-> sk, result |-> "InvalidLevelTableError"]
    ELSE IF name \in DOMAIN sk
    THEN [skills |-> sk, result |-> "DuplicateNameError"]
    ELSE [skills |-> sk @@ (name :> NewSkill(experience_curve, perk_points,
                                             perk_credits, involved_stats,
                                             stat_values)),
          result |-> "ok"]

\* scan of the thresholds upward from Python index level: stop at the first
\* threshold above the experience
RECURSIVE LevelScan(_, _, _)
LevelScan(curve, experience, level) ==
    IF level + 1 < Len(curve) /\ curve[level + 2] <= experience
    THEN LevelScan(curve, experience, level + 1)
    ELSE level

current_level(curve, experience) == LevelScan(curve, experience, 0)

(***************************************************************************)
(* Entity, Item, Portal, Area (spec.md 3): plain records.  Items, entities *)
(* and areas are objects; a reference to one is the name of the variable   *)
(* (or dict key) that first held it.                                       *)
(***************************************************************************)
Entity(name, skill_names, skillexp, statmods) ==
    [name |-> name, skills |-> skill_names, skillexp |-> skillexp,
     statmods |-> statmods]

Portal(leads_to, is_from, key_item) ==
    [leads_to |-> leads_to, is_from |-> is_from, key_item |-> key_item]

NoPortal == Portal("", "", "")

Item(portal, has_portal, name) ==
    [portal |-> portal, has_portal |-> has_portal, name |-> name]

Area(item_refs, entity_refs) == [items |-> item_refs, entities |-> entity_refs]

(***************************************************************************)
(* The statements of src/gamedata.py.  m is the machine: the module's      *)
(* state as a record.  Each statement returns the machine after it: pc     *)
(* moved to the next statement, or exc set when the statement raises.      *)
(***************************************************************************)
EndOfFile == 120

Raise(m, e) == [m EXCEPT !.exc = e]

\* gamedata.py passes no derivation function to Stat; the library's default
\* is taken to hand the source's value on unchanged
DefaultFn == "identity"

\* the constructor Stat(value, name, derived_from): a base stat when
\* derived_from is not given, else a derived stat that stores the value
\* argument
Stat(g, value, name, derived_from) ==
    IF derived_from = NoSource THEN create_base_stat(g, name, value)
    ELSE LET r == create_derived_stat(g, name, derived_from, DefaultFn)
         IN  IF r.result = "ok"
             THEN [graph |-> [r.graph EXCEPT ![name].value = value], result |-> "ok"]
             ELSE r

\* Stat(value=v, name=n): a base stat
BaseStat(m, value, name, next) ==
    LET r == Stat(m.graph, value, name, NoSource)
    IN  IF r.result = "ok" THEN [m EXCEPT !.graph = r.graph, !.pc = next]
        ELSE Raise(m, r.result)

\* Stat(value=v, name=n, derived_from=s): a derived stat
DerivedStat(m, value, name, derived_from, next) ==
    LET r == Stat(m.graph, value, name, derived_from)
    IN  IF r.result = "ok" THEN [m EXCEPT !.graph = r.graph, !.pc = next]
        ELSE Raise(m, r.result)

\* {attack.name: attack.full_value(), maxhp.name: ..., dodge.name: ..., curhp.name: ...}
MeleeStats == {"attack", "maxhp", "dodge", "curhp"}
FullValues(g) == [n \in MeleeStats |-> full_value(g, n)]

Bind(d, key, value) == [k \in DOMAIN d \cup {key} |-> IF k = key THEN value ELSE d[k]]

Line45(m) == BaseStat(m, BASE_STAT_MINIMUM, "strength", 46)
Line46(m) == BaseStat(m, BASE_STAT_MINIMUM, "dexterity", 47)
Line47(m) == BaseStat(m, BASE_STAT_MINIMUM, "stamina", 48)
Line48(m) == BaseStat(m, BASE_STAT_MINIMUM, "agility", 58)
\* faulty variant: attack derived from the wrong base stat
Line58_wrong_source(m) == DerivedStat(m, 0, "attack", "strength", 59)
\* faulty variant: maxhp derived from the wrong base stat
Line59_wrong_source(m) == DerivedStat(m, 0, "maxhp", "strength", 60)
\* faulty variant: curhp derived from stamina instead of maxhp
Line64_skips_maxhp(m) == DerivedStat(m, 0, "curhp", "stamina", 78)
\* faulty variant: the maxhp entry holds the stored value, not the full_value read
Line96_stored_value(m) ==
    [m EXCEPT !.dicts = Bind(@, "stats",
                  [FullValues(m.graph) EXCEPT !["maxhp"] = m.graph["maxhp"].value]),
              !.pc = 98]

Line58(m) == DerivedStat(m, 0, "attack", "dexterity", 59)
Line59(m) == DerivedStat(m, 0, "maxhp", "stamina", 60)
Line60(m) == DerivedStat(m, 0, "dodge", "agility", 64)
Line64(m) == DerivedStat(m, 0, "curhp", "maxhp", 78)

Line78(m) == [m EXCEPT !.dicts = Bind(@, "melee_values", FullValues(m.graph)), !.pc = 79]

Line79(m) ==
    LET r == Skill(m.skills, EXPERIENCE_CURVE, PERK_POINTS, PERK_CREDITS, "melee",
                   MeleeStats, m.dicts["melee_values"])
    IN  IF r.result = "ok" THEN [m EXCEPT !.skills = r.skills, !.pc = 94]
        ELSE Raise(m, r.result)

Line94(m) == [m EXCEPT !.dicts = Bind(@, "playerexp", [k \in {"melee"} |-> 0]), !.pc = 95]
Line95(m) == [m EXCEPT !.dicts = Bind(@, "roommateexp", [k \in {"melee"} |-> 3000]), !.pc = 96]
Line96(m) == [m EXCEPT !.dicts = Bind(@, "stats", FullValues(m.graph)), !.pc = 98]

Line98(m) ==
    [m EXCEPT !.entities = Bind(@, "player",
                  Entity("Ben", {"melee"}, m.dicts["playerexp"], m.dicts["stats"])),
              !.pc = 100]

Line100(m) ==
    [m EXCEPT !.entities = Bind(@, "playersroommate",
                  Entity("Joe", {"melee"}, m.dicts["roommateexp"], m.dicts["stats"])),
              !.pc = 102]

Line102(m) == [m EXCEPT !.groups = Bind(@, "kitchenspiders", {}), !.iter = 0, !.pc = 103]

\* for i in range(a, b): the next element is bound to i, or the loop ends
ForRange(m, a, b, body, after) ==
    IF m.iter < Len(PyRange(a, b))
    THEN [m EXCEPT !.i = PyInt(PyRange(a, b)[m.iter + 1]), !.iter = m.iter + 1,
                   !.pc = body]
    ELSE [m EXCEPT !.iter = 0, !.pc = after]

Line103(m) == ForRange(m, 1, 5, 104, 106)

\* group[prefix + i] = Entity(...): the right-hand side is evaluated first, then
\* the key; the entity is stored only if the key evaluates
StoreInGroup(m, group, prefix, entity, loop) ==
    LET key == PyAdd(PyStr(prefix), m.i)
    IN  IF key.exc # "none" THEN Raise(m, key.exc)
        ELSE [m EXCEPT !.entities = Bind(@, key.val.v, entity),
                       !.groups = Bind(@, group, m.groups[group] \cup {key.val.v}),
                       !.pc = loop]

Line104(m) ==
    StoreInGroup(m, "kitchenspiders", "spider ",
                 Entity("a spider", {"melee"}, [k \in {"melee"} |-> 0], m.dicts["stats"]),
                 103)

Line106(m) == [m EXCEPT !.groups = Bind(@, "basementrats", {}), !.iter = 0, !.pc = 107]

Line107(m) == ForRange(m, 1, 3, 108, 110)

Line108(m) ==
    StoreInGroup(m, "basementrats", "rat ",
                 Entity("a rat", {"melee"}, [k \in {"melee"} |-> 500], m.dicts["stats"]),
                 107)

\* line 110, "skills={melee.name: melee}. skillexp={...}", is not valid Python:
\* the file has no statement there
InvalidSyntax == {110}

Line112(m) ==
    [m EXCEPT !.items = Bind(Bind(@, "Kitchen Key", Item(NoPortal, FALSE, "Kitchen Key")),
                             "kitchendoor",
                             Item(Portal("", "", "Kitchen Key"), TRUE, "kitchendoor")),
              !.pc = 113]

\* Item(portal.Portal(leads_to='', is_from=''), name=...): the file binds no
\* name portal itself, so the statement works only if the star import did
Line113(m) ==
    IF "portal" \notin m.imported THEN Raise(m, "NameError")
    ELSE [m EXCEPT !.items = Bind(@, "backfromkitchen",
                                  Item(Portal("", "", ""), TRUE, "backfromkitchen")),
                   !.pc = 114]

Line114(m) ==
    [m EXCEPT !.areas = Bind(@, "livingroom",
                  Area([k \in {m.items["kitchendoor"].name} |-> "kitchendoor"],
                       [k \in {m.entities["player"].name,
                               m.entities["playersroommate"].name} |->
                           IF k = m.entities["player"].name THEN "player"
                           ELSE "playersroommate"])),
              !.pc = 115]

Line115(m) ==
    [m EXCEPT !.areas = Bind(@, "kitchen",
                  Area([k \in {m.items["backfromkitchen"].name} |-> "backfromkitchen"],
                       [k \in m.groups["kitchenspiders"] |-> k])),
              !.pc = 116]

\* area.items[key].portal.<field> = target: the item is reached through the area
SetPortal(m, area, key, field, target, next) ==
    LET ref == m.areas[area].items[key]
    IN  [m EXCEPT !.items[ref].portal =
                      IF field = "is_from" THEN [@ EXCEPT !.is_from = target]
                      ELSE [@ EXCEPT !.leads_to = target],
                  !.pc = next]

Line116(m) == SetPortal(m, "livingroom", m.items["kitchendoor"].name, "is_from", "livingroom", 117)
Line117(m) == SetPortal(m, "livingroom", m.items["kitchendoor"].name, "leads_to", "kitchen", 118)
Line118(m) == SetPortal(m, "kitchen", m.items["backfromkitchen"].name, "is_from", "kitchen", 119)
Line119(m) == SetPortal(m, "kitchen", m.items["backfromkitchen"].name, "leads_to", "livingroom", EndOfFile)

\* the statement at m.pc, for a file that compiled (a line in InvalidSyntax
\* holds no statement)
Exec(m) ==
    CASE m.pc = 45 -> Line45(m) [] m.pc = 46 -> Line46(m) [] m.pc = 47 -> Line47(m)
      [] m.pc = 48 -> Line48(m) [] m.pc = 58 -> Line58(m) [] m.pc = 59 -> Line59(m)
      [] m.pc = 60 -> Line60(m) [] m.pc = 64 -> Line64(m) [] m.pc = 78 -> Line78(m)
      [] m.pc = 79 -> Line79(m) [] m.pc = 94 -> Line94(m) [] m.pc = 95 -> Line95(m)
      [] m.pc = 96 -> Line96(m) [] m.pc = 98 -> Line98(m) [] m.pc = 100 -> Line100(m)
      [] m.pc = 102 -> Line102(m) [] m.pc = 103 -> Line103(m) [] m.pc = 104 -> Line104(m)
      [] m.pc = 106 -> Line106(m) [] m.pc = 107 -> Line107(m) [] m.pc = 108 -> Line108(m)
      [] m.pc = 112 -> Line112(m) [] m.pc = 113 -> Line113(m)
      [] m.pc = 114 -> Line114(m) [] m.pc = 115 -> Line115(m) [] m.pc = 116 -> Line116(m)
      [] m.pc = 117 -> Line117(m) [] m.pc = 118 -> Line118(m) [] m.pc = 119 -> Line119(m)
      [] OTHER -> m

\* the compiler reads the whole file before any statement runs: one line that
\* does not parse raises SyntaxError and nothing is executed
Compile(m) ==
    IF InvalidSyntax # {} THEN Raise(m, "SyntaxError")
    ELSE [m EXCEPT !.compiled = TRUE]

Machine ==
    [imported |-> imported, compiled |-> compiled, pc |-> pc, exc |-> exc, i |-> i, iter |-> iter,
     graph |-> graph, skills |-> skills, dicts |-> dicts, entities |-> entities,
     groups |-> groups, items |-> items, areas |-> areas]

\* loading has stopped: the body ran to the end of the file, or compiling or a
\* statement raised
Halted == pc = EndOfFile \/ exc # "none"

\* the constructors the file uses, and what the star import of line 5 can
\* bind besides them: the library is not part of src/, and line 113 is the one
\* statement that reads another of its names
Constructors == {"Stat", "Skill", "Entity", "Item", "Portal", "Area"}
Libraries == {Constructors, Constructors \cup {"portal"}}

NoCall == [op |-> "none", name |-> "", source |-> "", value |-> 0, result |-> "ok"]

Init ==
    /\ imported \in Libraries
    /\ compiled = FALSE
    /\ pc = 45
    /\ exc = "none"
    /\ i = PyInt(0)
    /\ iter = 0
    /\ graph = << >>
    /\ skills = << >>
    /\ dicts = << >>
    /\ entities = << >>
    /\ groups = << >>
    /\ items = << >>
    /\ areas = << >>
    /\ lastCall = NoCall
    /\ ncalls = 0
    /\ issued = << >>
    /\ removed = {}
    /\ lastLevel = [entity |-> "", skill |-> "", experience |-> 0, level |-> 0]

\* the interpreter loads the file: it compiles it, then executes the next
\* statement of the body
Load ==
    /\ ~Halted
    /\ LET m == IF compiled THEN Exec(Machine) ELSE Compile(Machine)
       IN  /\ imported' = m.imported
           /\ compiled' = m.compiled
           /\ pc' = m.pc
           /\ exc' = m.exc
           /\ i' = m.i
           /\ iter' = m.iter
           /\ graph' = m.graph
           /\ skills' = m.skills
           /\ dicts' = m.dicts
           /\ entities' = m.entities
           /\ groups' = m.groups
           /\ items' = m.items
           /\ areas' = m.areas
    /\ UNCHANGED <<lastCall, ncalls, issued, removed, lastLevel>>

(***************************************************************************)
(* The engine (spec.md 6): once loading has stopped it makes its calls on  *)
(* the session: it registers stats, changes values and modifiers, builds   *)
(* entities and skills, awards experience and computes levels.  Inputs     *)
(* come from small sets.                                                   *)
(***************************************************************************)
Values == {BASE_STAT_MINIMUM, 8}
Adjustments == {[kind |-> "add", amount |-> NPC_CIVILIAN_STATMOD],
                [kind |-> "mul", amount |-> 2],
                [kind |-> "mul", amount |-> 0]}

Called(op, name, source, value, result) ==
    /\ lastCall' = [op |-> op, name |-> name, source |-> source, value |-> value,
                    result |-> result]
    /\ ncalls' = ncalls + 1

CanCall == Halted /\ ncalls < MaxCalls

DoCreateBaseStat(name, value) ==
    /\ CanCall
    /\ LET r == create_base_stat(graph, name, value)
       IN  graph' = r.graph /\ Called("create_base_stat", name, "", value, r.result)
    /\ UNCHANGED <<imported, compiled, pc, exc, i, iter, skills, dicts, entities, groups, items,
                   areas, issued, removed, lastLevel>>

DoCreateDerivedStat(name, source_name, fn) ==
    /\ CanCall
    /\ LET r == create_derived_stat(graph, name, source_name, fn)
       IN  graph' = r.graph /\ Called("create_derived_stat", name, source_name, 0, r.result)
    /\ UNCHANGED <<imported, compiled, pc, exc, i, iter, skills, dicts, entities, groups, items,
                   areas, issued, removed, lastLevel>>

DoSetBaseValue(name, value) ==
    /\ CanCall
    /\ LET r == set_base_value(graph, name, value)
       IN  graph' = r.graph /\ Called("set_base_value", name, "", value, r.result)
    /\ UNCHANGED <<imported, compiled, pc, exc, i, iter, skills, dicts, entities, groups, items,
                   areas, issued, removed, lastLevel>>

\* the engine numbers the modifiers it applies 1, 2, ...
DoApplyModifier(name, adj) ==
    /\ CanCall
    /\ Len(issued) < MaxMods
    /\ LET modifier == [id |-> Len(issued) + 1, kind |-> adj.kind, amount |-> adj.amount]
           r == apply_modifier(graph, name, modifier)
       IN  /\ graph' = r.graph
           /\ Called("apply_modifier", name, "", 0, r.result)
           /\ issued' = IF r.result = "ok" THEN Append(issued, name) ELSE issued
    /\ UNCHANGED <<imported, compiled, pc, exc, i, iter, skills, dicts, entities, groups, items,
                   areas, removed, lastLevel>>

DoRemoveModifier(name, modifier_id) ==
    /\ CanCall
    /\ modifier_id \in 1..Len(issued)
    /\ LET r == remove_modifier(graph, name, modifier_id)
       IN  /\ graph' = r.graph
           /\ Called("remove_modifier", name, "", 0, r.result)
           /\ removed' = IF r.result = "ok" /\ issued[modifier_id] = name
                         THEN removed \cup {modifier_id} ELSE removed
    /\ UNCHANGED <<imported, compiled, pc, exc, i, iter, skills, dicts, entities, groups, items,
                   areas, issued, lastLevel>>

\* the engine builds an entity as lines 96-100 do: a dict of full_value reads
\* is made first (a read of an unregistered stat raises), then Entity is called
\* with it; the skills named in skillexp are existing Skill objects
DoCreateEntity(ref, skillexp, stat_names) ==
    /\ CanCall
    /\ DOMAIN skillexp \subseteq DOMAIN skills
    /\ LET result == IF ~(stat_names \subseteq DOMAIN graph) THEN "UnknownStatError"
                     ELSE IF ref \in DOMAIN entities THEN "DuplicateNameError"
                     ELSE "ok"
       IN  /\ entities' = IF result = "ok"
                          THEN Bind(entities, ref,
                                    Entity(ref, DOMAIN skillexp, skillexp,
                                           [n \in stat_names |-> full_value(graph, n)]))
                          ELSE entities
           /\ Called("Entity", ref, "", 0, result)
    /\ UNCHANGED <<imported, compiled, pc, exc, i, iter, graph, skills, dicts, groups, items,
                   areas, issued, removed, lastLevel>>

\* an entity re-queries the StatGraph and replaces its snapshot
RefreshSnapshot(e) ==
    /\ Halted
    /\ e \in DOMAIN entities
    /\ entities' = [entities EXCEPT
                       ![e].statmods = [n \in DOMAIN @ |-> full_value(graph, n)]]
    /\ UNCHANGED <<imported, compiled, pc, exc, i, iter, graph, skills, dicts, groups, items,
                   areas, lastCall, ncalls, issued, removed, lastLevel>>

DoCreateSkill(name, table) ==
    /\ CanCall
    /\ LET r == Skill(skills, table.curve, table.points, table.credits, name,
                      DOMAIN graph, [n \in DOMAIN graph |-> full_value(graph, n)])
       IN  skills' = r.skills /\ Called("Skill", name, "", 0, r.result)
    /\ UNCHANGED <<imported, compiled, pc, exc, i, iter, graph, dicts, entities, groups, items,
                   areas, issued, removed, lastLevel>>

\* gameplay awards experience: the entity's mapping is written directly
SetExperience(e, skill, experience) ==
    /\ CanCall
    /\ e \in DOMAIN entities
    /\ skill \in DOMAIN skills
    /\ entities' = [entities EXCEPT ![e].skillexp = Bind(@, skill, experience),
                                    ![e].skills = @ \cup {skill}]
    /\ Called("set_experience", e, skill, experience, "ok")
    /\ UNCHANGED <<imported, compiled, pc, exc, i, iter, graph, skills, dicts, groups, items,
                   areas, issued, removed, lastLevel>>

ComputeLevel(e, skill) ==
    /\ CanCall
    /\ e \in DOMAIN entities
    /\ skill \in DOMAIN skills
    /\ skill \in DOMAIN entities[e].skillexp
    /\ lastLevel' = [entity |-> e, skill |-> skill,
                     experience |-> entities[e].skillexp[skill],
                     level |-> current_level(skills[skill].experience_curve,
                                             entities[e].skillexp[skill])]
    /\ Called("current_level", e, skill, 0, "ok")
    /\ UNCHANGED <<imported, compiled, pc, exc, i, iter, graph, skills, dicts, entities, groups,
                   items, areas, issued, removed>>

(***************************************************************************)
(* Specifications.                                                         *)
(***************************************************************************)
\* Spec: every StatGraph operation, stats registered in any way over three
\* names
Names == {"stamina", "maxhp", "curhp"}
ValueNames == {"stamina"}
DerivedNames == {"maxhp"}
ModifiedNames == {"stamina", "maxhp"}

Next ==
    \/ Load
    \/ \E name \in Names : DoCreateBaseStat(name, BASE_STAT_MINIMUM)
    \/ \E name \in Names, source_name \in Names, fn \in ModifierFns :
           DoCreateDerivedStat(name, source_name, fn)
    \/ \E name \in ValueNames, value \in Values : DoSetBaseValue(name, value)
    \/ \E name \in DerivedNames, adj \in Adjustments : DoApplyModifier(name, adj)
    \/ \E name \in DerivedNames, modifier_id \in 1..MaxMods :
           DoRemoveModifier(name, modifier_id)

Spec == Init /\ [][Next]_vars

\* ChainSpec: the stats of the example scenario (spec.md 8: stamina, maxhp =
\* stamina * 10, curhp = maxhp) next to an unrelated pair (agility, dodge),
\* registered in any order, with every change of value and modifiers
BaseDeclarations == {"stamina", "agility"}
DerivedDeclarations ==
    {[name |-> "maxhp", source_name |-> "stamina", fn |-> "times10"],
     [name |-> "curhp", source_name |-> "maxhp", fn |-> "identity"],
     [name |-> "dodge", source_name |-> "agility", fn |-> "identity"]}
ChainValueNames == {"stamina", "agility"}
ChainNames == {"stamina", "maxhp", "curhp"}

ChainNext ==
    \/ Load
    \/ \E name \in BaseDeclarations : DoCreateBaseStat(name, BASE_STAT_MINIMUM)
    \/ \E d \in DerivedDeclarations : DoCreateDerivedStat(d.name, d.source_name, d.fn)
    \/ \E name \in ChainValueNames, value \in Values : DoSetBaseValue(name, value)
    \/ \E name \in ChainNames, adj \in Adjustments : DoApplyModifier(name, adj)
    \/ \E name \in ChainNames, modifier_id \in 1..MaxMods :
           DoRemoveModifier(name, modifier_id)

ChainSpec == Init /\ [][ChainNext]_vars

\* SnapshotSpec: stats, entities built from reads of two of them, changes of
\* value and modifiers, and one entity that re-queries
SnapshotDeclarations == {d \in DerivedDeclarations : d.name = "maxhp"}
SnapshotStats == {"maxhp", "agility"}
EntityRefs == {"player", "playersroommate"}
Requerying == {"playersroommate"}
NoExperience == [k \in {} |-> 0]

SnapshotNext ==
    \/ Load
    \/ \E name \in BaseDeclarations : DoCreateBaseStat(name, BASE_STAT_MINIMUM)
    \/ \E d \in SnapshotDeclarations : DoCreateDerivedStat(d.name, d.source_name, d.fn)
    \/ \E e \in EntityRefs : DoCreateEntity(e, NoExperience, SnapshotStats)
    \/ \E name \in ChainValueNames, value \in Values : DoSetBaseValue(name, value)
    \/ \E name \in ModifiedNames, adj \in Adjustments : DoApplyModifier(name, adj)
    \/ \E name \in ModifiedNames, modifier_id \in 1..MaxMods :
           DoRemoveModifier(name, modifier_id)
    \/ \E e \in Requerying : RefreshSnapshot(e)

SnapshotSpec == Init /\ [][SnapshotNext]_vars

\* SkillSpec: skills built from valid and invalid tables, entities with the
\* experience of lines 94 and 95, experience awarded, levels computed
SkillNames == {"melee", "archery"}
LevelTables ==
    {[curve |-> EXPERIENCE_CURVE, points |-> PERK_POINTS, credits |-> PERK_CREDITS],
     [curve |-> <<0, 500, 1500>>, points |-> <<5, 3, 5>>, credits |-> <<3, 1, 2>>],
     [curve |-> <<0, 500, 1500>>, points |-> <<5, 3>>, credits |-> <<3, 1, 2>>],
     [curve |-> <<0, 500, 500>>, points |-> <<5, 3, 5>>, credits |-> <<3, 1, 2>>],
     [curve |-> <<500, 1500>>, points |-> <<5, 3>>, credits |-> <<3, 1>>],
     [curve |-> <<0, 1500, 500>>, points |-> <<5, 3, 5>>, credits |-> <<3, 1, 2>>]}
StartingExperience == {[k \in {"melee"} |-> 0], [k \in {"melee"} |-> 3000]}
Experiences == {499, 500, 600, 1500, 25000}

SkillNext ==
    \/ Load
    \/ \E name \in SkillNames, table \in LevelTables : DoCreateSkill(name, table)
    \/ \E e \in EntityRefs, x \in StartingExperience : DoCreateEntity(e, x, {})
    \/ \E e \in EntityRefs, skill \in SkillNames, x \in Experiences : SetExperience(e, skill, x)
    \/ \E e \in EntityRefs, skill \in SkillNames : ComputeLevel(e, skill)

SkillSpec == Init /\ [][SkillNext]_vars

(***************************************************************************)
(* Definitions used to state the properties.                               *)
(***************************************************************************)
SampleStats == {"strength", "dexterity", "stamina", "agility", "attack", "maxhp",
                "dodge", "curhp"}

\* What the file declares: its statements taken in file order from an empty
\* session up to and including line `last` (or up to the first one that
\* raises).  This is the reading of the text, not a state the load reaches.
Blank ==
    [imported |-> Constructors, compiled |-> TRUE, pc |-> 45, exc |-> "none",
     i |-> PyInt(0), iter |-> 0,
     graph |-> << >>, skills |-> << >>, dicts |-> << >>, entities |-> << >>,
     groups |-> << >>, items |-> << >>, areas |-> << >>]

RECURSIVE RunThrough(_, _)
RunThrough(m, last) ==
    IF m.exc # "none" \/ m.pc > last THEN m ELSE RunThrough(Exec(m), last)

Declared(last) == RunThrough(Blank, last)

\* the stats reachable from the set by following source links, the set included
RECURSIVE SourceClosure(_, _)
SourceClosure(g, set) ==
    LET next == set \cup {g[x].source : x \in {y \in set \cap DOMAIN g : g[y].source # NoSource}}
    IN  IF next = set THEN set ELSE SourceClosure(g, next)

\* the stats s is derived from, directly or transitively
Ancestors(g, s) ==
    IF s \notin DOMAIN g \/ g[s].source = NoSource THEN {}
    ELSE SourceClosure(g, {g[s].source})

\* the chain s, source(s), ..., of at most left + 1 stats
RECURSIVE ChainPath(_, _, _)
ChainPath(g, s, left) ==
    IF s \notin DOMAIN g THEN <<>>
    ELSE IF g[s].source = NoSource \/ left = 0 THEN <<s>>
    ELSE <<s>> \o ChainPath(g, g[s].source, left - 1)

\* position by position application of a modifier list, first entry first
RECURSIVE InInsertionOrder(_, _, _)
InInsertionOrder(mods, v, k) ==
    IF k > Len(mods) THEN v
    ELSE InInsertionOrder(mods,
                          IF mods[k].kind = "add" THEN v + mods[k].amount
                          ELSE v * mods[k].amount,
                          k + 1)

\* from the base stat (the last of path) outward: the stat's modifiers, then the
\* derivation function of the next stat
RECURSIVE Outward(_, _, _, _)
Outward(g, path, k, acc) ==
    LET here == InInsertionOrder(g[path[k]].modifiers, acc, 1)
    IN  IF k = 1 THEN here
        ELSE Outward(g, path, k - 1,
                     IF g[path[k - 1]].modifier_fn = "times10" THEN here * 10 ELSE here)

OutwardValue(g, s) ==
    LET path == ChainPath(g, s, Cardinality(DOMAIN g))
    IN  Outward(g, path, Len(path), g[path[Len(path)]].value)

\* this step is one engine call of the operation op
Step(op) == ncalls' = ncalls + 1 /\ lastCall'.op = op

\* no stat is its own source or among the stats it is derived from, and every
\* source is a registered stat
SourcesAcyclic(g) ==
    \A s \in DOMAIN g :
        /\ g[s].source # s
        /\ s \notin Ancestors(g, s)
        /\ g[s].source # NoSource => g[s].source \in DOMAIN g

\* C1: in every state reached by the five StatGraph calls, failing ones
\* included, no stat is its own source, no stat is among the stats it is
\* derived from, and every source is a registered stat (a stat holds one source
\* at most); the eight stats that lines 45-64 declare have the sources the
\* claim lists, and these satisfy the same.
C1_SourceRelationAcyclic ==
    /\ SourcesAcyclic(graph)
    /\ LET g == Declared(64).graph
       IN  /\ DOMAIN g = SampleStats
           /\ SourcesAcyclic(g)
           /\ \A s \in {"strength", "dexterity", "stamina", "agility"} :
                  g[s].source = NoSource
           /\ g["attack"].source = "dexterity"
           /\ g["maxhp"].source = "stamina"
           /\ g["dodge"].source = "agility"
           /\ g["curhp"].source = "maxhp"

\* a rejected create_derived_stat that would have closed a cycle: its name is
\* the source of its source, on a chain of derived stats
C1_Witness ==
    /\ lastCall.op = "create_derived_stat"
    /\ lastCall.result # "ok"
    /\ \E s \in DOMAIN graph :
          /\ graph[s].source = lastCall.name
          /\ lastCall.source = s
          /\ graph[graph[s].source].source # NoSource

FoldsOutward(g) ==
    \A s \in DOMAIN g :
        /\ Resolve(g, s, Cardinality(DOMAIN g)).done
        /\ full_value(g, s) = OutwardValue(g, s)

\* C3: for every registered stat the recursive read ends, and its value is the
\* base stat's stored value taken outward along the chain, each stat's
\* modifiers in insertion order, then the next stat's derivation; as lines
\* 47, 59 and 64 declare it, curhp resolves through maxhp to stamina, and the
\* reads of line 78 are these values.
C3_FullValueFoldsOutward ==
    /\ FoldsOutward(graph)
    /\ "curhp" \in DOMAIN graph =>
          ChainPath(graph, "curhp", Cardinality(DOMAIN graph)) = <<"curhp", "maxhp", "stamina">>
    /\ LET w == Declared(78)
       IN  /\ FoldsOutward(w.graph)
           /\ ChainPath(w.graph, "curhp", Cardinality(DOMAIN w.graph))
                  = <<"curhp", "maxhp", "stamina">>
           /\ w.dicts["melee_values"] = [n \in MeleeStats |-> OutwardValue(w.graph, n)]

\* modifiers of both kinds on two stats of the chain under curhp, two of them
\* on one stat
C3_Witness ==
    /\ "curhp" \in DOMAIN graph
    /\ Len(graph["stamina"].modifiers) = 2
    /\ graph["stamina"].modifiers[1].kind # graph["stamina"].modifiers[2].kind
    /\ graph["stamina"].modifiers[2].amount # 0
    /\ graph["maxhp"].modifiers # <<>>
    /\ full_value(graph, "curhp") # graph["stamina"].value * 10

\* the call of this step is a successful set_base_value on the base stat b
SetBaseStep(b) ==
    /\ Step("set_base_value")
    /\ lastCall'.name = b
    /\ lastCall'.result = "ok"
    /\ graph[b].source = NoSource

\* no modifier on the chain of s multiplies by zero
ChainKeepsDifferences(g, s) ==
    LET path == ChainPath(g, s, Cardinality(DOMAIN g))
    IN  \A k \in 1..Len(path) : \A j \in 1..Len(g[path[k]].modifiers) :
            ~(g[path[k]].modifiers[j].kind = "mul" /\ g[path[k]].modifiers[j].amount = 0)

NoModifiersOn(g, names) == \A n \in names : g[n].modifiers = <<>>

\* C4 as stated: set_base_value(b, v) on a base stat changes full_value of
\* every stat derived from b and leaves it unchanged for every stat that is
\* neither b nor derived from b.
C4_SetBaseValueChangesDerived ==
    [][\A b \in DOMAIN graph : SetBaseStep(b) =>
          \A s \in DOMAIN graph \ {b} :
              IF b \in Ancestors(graph, s)
              THEN full_value(graph', s) # full_value(graph, s)
              ELSE full_value(graph', s) = full_value(graph, s)]_vars

\* C4 amended: the derived stats change when v differs from the stored value
\* and nothing on the chain collapses the difference, and do not change when v
\* is the stored value; unrelated stats never change.  With stamina = 5, maxhp
\* = stamina * 10, curhp = maxhp and no modifiers, curhp reads 50, and 80 after
\* set_base_value(stamina, 8).  As lines 45-64 declare them, maxhp and curhp
\* are derived from stamina, attack and dodge are not, and set_base_value on
\* stamina leaves the reads of attack and dodge as they were.
C4_SetBaseValueReachesDerived ==
    /\ [][\A b \in DOMAIN graph : SetBaseStep(b) =>
            /\ \A s \in DOMAIN graph \ {b} :
                  /\ (/\ b \in Ancestors(graph, s)
                      /\ lastCall'.value # graph[b].value
                      /\ ChainKeepsDifferences(graph, s))
                     => full_value(graph', s) # full_value(graph, s)
                  /\ (b \in Ancestors(graph, s) /\ lastCall'.value = graph[b].value)
                     => full_value(graph', s) = full_value(graph, s)
                  /\ b \notin Ancestors(graph, s)
                     => full_value(graph', s) = full_value(graph, s)
            /\ (/\ b = "stamina"
                /\ lastCall'.value = 8
                /\ "curhp" \in DOMAIN graph
                /\ NoModifiersOn(graph, {"stamina", "maxhp", "curhp"}))
               => full_value(graph', "curhp") = 80]_vars
    /\ [](/\ ("curhp" \in DOMAIN graph
              /\ graph["stamina"].value = BASE_STAT_MINIMUM
              /\ NoModifiersOn(graph, {"stamina", "maxhp", "curhp"}))
             => full_value(graph, "curhp") = 50
          /\ LET g == Declared(64).graph
                 after == set_base_value(g, "stamina", 8).graph
             IN  /\ "stamina" \in Ancestors(g, "maxhp")
                 /\ "stamina" \in Ancestors(g, "curhp")
                 /\ \A s \in {"attack", "dodge"} :
                        /\ "stamina" \notin Ancestors(g, s)
                        /\ full_value(after, s) = full_value(g, s))

\* with all five stats registered, set_base_value("stamina", 8) has just moved
\* curhp from 50 to 80 and left dodge at its value
C4_Witness ==
    /\ lastCall.op = "set_base_value"
    /\ lastCall.name = "stamina"
    /\ lastCall.value = 8
    /\ lastCall.result = "ok"
    /\ ncalls = 6
    /\ full_value(graph, "curhp") = 80
    /\ "dodge" \in DOMAIN graph
    /\ full_value(graph, "dodge") = BASE_STAT_MINIMUM

\* C5 as stated: create_base_stat or create_derived_stat with a registered
\* name raises DuplicateNameError, and the stat graph after the call is the
\* graph before it.
C5_DuplicateNameLeavesGraph ==
    [][((Step("create_base_stat") \/ Step("create_derived_stat"))
        /\ lastCall'.name \in DOMAIN graph)
       => (lastCall'.result = "DuplicateNameError" /\ graph' = graph)]_vars

\* C5 amended: a call of either operation with a registered name is rejected
\* and the stat graph after the call is the graph before it; the error is
\* DuplicateNameError, except for a create_derived_stat whose source is the
\* name itself or is derived from it, which is the CycleError of C2.
C5_RegisteredNameLeavesGraph ==
    [][((Step("create_base_stat") \/ Step("create_derived_stat"))
        /\ lastCall'.name \in DOMAIN graph)
       => /\ graph' = graph
          /\ lastCall'.result =
                 IF /\ lastCall'.op = "create_derived_stat"
                    /\ lastCall'.source \in DOMAIN graph
                    /\ lastCall'.name \in {lastCall'.source}
                                          \cup Ancestors(graph, lastCall'.source)
                 THEN "CycleError" ELSE "DuplicateNameError"]_vars

\* a rejected second registration of a derived stat that carries a modifier
C5_Witness ==
    /\ lastCall.op = "create_base_stat"
    /\ lastCall.result = "DuplicateNameError"
    /\ graph[lastCall.name].source # NoSource
    /\ graph[lastCall.name].modifiers # <<>>

\* the modifier ids applied to s and not removed from it
ActiveIds(s) == {k \in 1..Len(issued) : issued[k] = s /\ k \notin removed}

\* the value the modifiers of s are applied to
Basis(g, s) ==
    IF g[s].source = NoSource THEN g[s].value
    ELSE ApplyFn(g[s].modifier_fn, full_value(g, g[s].source))

\* C7: the modifiers of a stat are the applied and not removed ones, in the
\* order of application (ids are issued in that order), and full_value applies
\* them in that order, each to the result of the ones before.
C7_ModifiersInApplicationOrder ==
    \A s \in DOMAIN graph :
        LET mods == graph[s].modifiers
        IN  /\ {mods[j].id : j \in 1..Len(mods)} = ActiveIds(s)
            /\ \A j, k \in 1..Len(mods) : j < k => mods[j].id < mods[k].id
            /\ full_value(graph, s) = InInsertionOrder(mods, Basis(graph, s), 1)

\* of three modifiers on a stat the middle one was removed; the two left are
\* an additive and a multiplicative one, and the other order would give
\* another value
C7_Witness ==
    \E s \in DOMAIN graph :
        LET mods == graph[s].modifiers
        IN  /\ Len(mods) = 2
            /\ mods[1].id = 1
            /\ mods[2].id = 3
            /\ 2 \in removed
            /\ mods[1].kind # mods[2].kind
            /\ full_value(graph, s) #
                   InInsertionOrder(<<mods[2], mods[1]>>, Basis(graph, s), 1)

PortalsReciprocal ==
    /\ {"kitchendoor", "backfromkitchen"} \subseteq DOMAIN items
    /\ {"livingroom", "kitchen"} \subseteq DOMAIN areas
    /\ items["kitchendoor"].portal.is_from = "livingroom"
    /\ items["kitchendoor"].portal.leads_to = "kitchen"
    /\ items["backfromkitchen"].portal.is_from = "kitchen"
    /\ items["backfromkitchen"].portal.leads_to = "livingroom"
    /\ \A a \in {"kitchendoor", "backfromkitchen"} :
          /\ items[a].portal.is_from # ""
          /\ items[a].portal.leads_to # ""
          /\ a \in {areas[items[a].portal.is_from].items[k] :
                        k \in DOMAIN areas[items[a].portal.is_from].items}

\* C9: once loading has stopped, kitchendoor and backfromkitchen are a
\* reciprocal pair, each held by the area it is from, neither with a '' link.
C9_PortalsReciprocalOnceBuilt == Halted => PortalsReciprocal

\* this step is a StatGraph mutation on the stat lastCall'.name
MutationStep ==
    Step("set_base_value") \/ Step("apply_modifier") \/ Step("remove_modifier")

\* C10: an entity's stat values are full_value reads taken when it is built; a
\* set_base_value, apply_modifier or remove_modifier call leaves every entity's
\* values as they are, and an entry that agreed with full_value before the call
\* still agrees after it unless the call was on that stat or on a stat it is
\* derived from.  As lines 96-100 declare them, player and playersroommate
\* hold the full_value reads of line 96.
C10_SnapshotNotLive ==
    /\ [][MutationStep =>
            /\ entities' = entities
            /\ \A e \in DOMAIN entities : \A s \in DOMAIN entities[e].statmods :
                  (/\ entities[e].statmods[s] = full_value(graph, s)
                   /\ s # lastCall'.name
                   /\ lastCall'.name \notin Ancestors(graph, s))
                  => entities'[e].statmods[s] = full_value(graph', s)]_vars
    /\ [][\A e \in EntityRefs :
            (Step("Entity") /\ lastCall'.name = e /\ lastCall'.result = "ok")
            => entities'[e].statmods = [n \in SnapshotStats |-> full_value(graph, n)]]_vars
    /\ [](LET w == Declared(100)
          IN  /\ {"player", "playersroommate"} \subseteq DOMAIN w.entities
              /\ \A e \in {"player", "playersroommate"} : \A n \in MeleeStats :
                     w.entities[e].statmods[n] = OutwardValue(w.graph, n))

\* after a call on stamina the player's snapshot is stale for maxhp only,
\* while the roommate has re-queried
C10_Witness ==
    /\ {"player", "playersroommate"} \subseteq DOMAIN entities
    /\ lastCall.name = "stamina"
    /\ entities["player"].statmods["maxhp"] # full_value(graph, "maxhp")
    /\ entities["player"].statmods["agility"] = full_value(graph, "agility")
    /\ \A n \in SnapshotStats :
           entities["playersroommate"].statmods[n] = full_value(graph, n)

\* the largest Python index whose threshold is at most x
HighestIndex(curve, x) ==
    CHOOSE idx \in 0..(Len(curve) - 1) :
        /\ curve[idx + 1] <= x
        /\ \A j \in 0..(Len(curve) - 1) : curve[j + 1] <= x => j <= idx

\* C6: the level computed for an entity is the largest index whose threshold
\* is at most its experience (600 on <<0, 500, 1500>> is 1; on the sample curve
\* 0 is 0 and 3000 is 3, the experience of lines 94 and 95); computing it
\* changes neither the skills nor the entities, and computing it again right
\* away gives the same result.
C6_LevelIsHighestThreshold ==
    /\ [](/\ lastLevel.skill # "" =>
               /\ lastLevel.level = HighestIndex(skills[lastLevel.skill].experience_curve,
                                                 lastLevel.experience)
               /\ (skills[lastLevel.skill].experience_curve = <<0, 500, 1500>>
                   /\ lastLevel.experience = 600) => lastLevel.level = 1
               /\ (skills[lastLevel.skill].experience_curve = EXPERIENCE_CURVE
                   /\ lastLevel.experience = 0) => lastLevel.level = 0
               /\ (skills[lastLevel.skill].experience_curve = EXPERIENCE_CURVE
                   /\ lastLevel.experience = 3000) => lastLevel.level = 3
          /\ LET w == Declared(95)
             IN  /\ current_level(EXPERIENCE_CURVE, w.dicts["playerexp"]["melee"]) = 0
                 /\ current_level(EXPERIENCE_CURVE, w.dicts["roommateexp"]["melee"]) = 3)
    /\ [][Step("current_level") =>
            /\ skills' = skills
            /\ entities' = entities
            /\ (/\ lastCall.op = "current_level"
                /\ lastCall.name = lastCall'.name
                /\ lastCall.source = lastCall'.source)
               => lastLevel' = lastLevel]_vars

\* 600 experience in a skill with thresholds 0, 500, 1500 resolved to level 1
\* while melee has the sample curve
C6_Witness ==
    /\ lastCall.op = "current_level"
    /\ lastLevel.skill = "archery"
    /\ skills["archery"].experience_curve = <<0, 500, 1500>>
    /\ skills["melee"].experience_curve = EXPERIENCE_CURVE
    /\ lastLevel.experience = 600
    /\ lastLevel.level = 1

EqualLengthIncreasingFromZero(curve, points, credits) ==
    /\ Len(curve) = Len(points)
    /\ Len(curve) = Len(credits)
    /\ Len(curve) > 0
    /\ curve[1] = 0
    /\ \A j, k \in 1..Len(curve) : j < k => curve[j] < curve[k]

\* C8: every skill's three sequences have one length and its thresholds start
\* at 0 and increase strictly; a table that is not so is rejected with
\* InvalidLevelTableError and the skills stay as they were; EXPERIENCE_CURVE,
\* PERK_POINTS and PERK_CREDITS are such a table, and line 79 builds melee
\* from them.
C8_LevelTablesValid ==
    /\ [](/\ \A n \in DOMAIN skills :
                EqualLengthIncreasingFromZero(skills[n].experience_curve,
                                              skills[n].perk_points,
                                              skills[n].perk_credits)
          /\ EqualLengthIncreasingFromZero(EXPERIENCE_CURVE, PERK_POINTS, PERK_CREDITS)
          /\ LET w == Declared(79)
             IN  /\ DOMAIN w.skills = {"melee"}
                 /\ w.skills["melee"].experience_curve = EXPERIENCE_CURVE
                 /\ w.skills["melee"].perk_points = PERK_POINTS
                 /\ w.skills["melee"].perk_credits = PERK_CREDITS)
    /\ [][\A name \in SkillNames, table \in LevelTables :
            (DoCreateSkill(name, table)
             /\ ~EqualLengthIncreasingFromZero(table.curve, table.points, table.credits))
            => (lastCall'.result = "InvalidLevelTableError" /\ skills' = skills)]_vars

\* a table was rejected after two skills had been built, one of them from the
\* sample's table
C8_Witness ==
    /\ lastCall.op = "Skill"
    /\ lastCall.result = "InvalidLevelTableError"
    /\ "archery" \in DOMAIN skills
    /\ "melee" \in DOMAIN skills
    /\ skills["melee"].perk_points = PERK_POINTS

====
